---- MODULE Spec2Model ----
(***************************************************************************)
(* Model of the plantlogger data loggers (src/datalogging/datalogger.py)   *)
(* with the device adapters they call (src/devices/yoctodevices.py,        *)
(* src/devices/chirpdevices.py).                                           *)
(*                                                                         *)
(* One logger process of one family ("yocto" or "chirp") runs against a    *)
(* configuration file, a set of devices and a sink.  The devices, the sink *)
(* and the file system are the environment: each call into them either     *)
(* succeeds or raises, chosen nondeterministically.                        *)
(***************************************************************************)
EXTENDS Integers, Sequences, FiniteSets, TLC

\* ------------------------------------------------------------------ bounds
MaxTime == 2       \* the clock (time.time()) runs over 1..MaxTime

\* The devices that can be connected: a module with two sensors and a data
\* logger, a module with one sensor, a relay.
DevIds == {1, 2, 3}

\* ------------------------------------------------------------ the devices
NoKey == "nokey"   \* a flag or calibration key absent from a section
NoName == -1       \* the key 'logical-name' absent from a section
NoLog == -1        \* the key 'last-log' absent from DataLogging
NoTimeout == -1    \* the key 'timeout' absent from DataLogging

\* Every third module is a relay (productName contains 'relay').
ProductName(d) == IF d % 3 = 0 THEN "Yocto-Relay" ELSE "Yocto-Meteo"

\* A variant that takes no module for a relay.
IsRelayNever(d) == FALSE

\* 'relay' in module.get_productName().lower()
IsRelay(d) == ProductName(d) = "Yocto-Relay"

\* Names are numbers: d is the serial number or address of device d, 0 is
\* the empty string and a number above 100 a name given by a user.
EmptyName == 0

\* module.get_logicalName(): "" when the user gave the module no name.
LogicalName(d) == IF d % 2 = 0 THEN 100 + d ELSE EmptyName

\* module.get_serialNumber(), str(chirp.address)
Serial(d) == d

\* module_name = module.get_logicalName() or module_serial
ModuleName(d) == IF LogicalName(d) = EmptyName THEN Serial(d) ELSE LogicalName(d)

\* yoctodevices.get_functions: functionId(0..functionCount()-1), in order.
YoctoFunctions(d) ==
    IF IsRelay(d) THEN <<"relay1">>
    ELSE IF d % 2 = 1 THEN <<"dataLogger", "temperature", "humidity">>
    ELSE <<"temperature">>

AllFuncs == {"dataLogger", "temperature", "humidity", "relay1",
             "moisture", "light", "moisture-percent"}

\* The value a probe holds for a metric after trigger().
Reported(d, m) == <<d, m>>

\* ------------------------------------------------------ the configuration
\* A ConfigParser: the fixed sections (DataServer, DataLogging, VirtualHub)
\* as one flag, the keys of DataLogging, and one section per device.
NoFlags == [f \in AllFuncs |-> NoKey]

\* A section absent from the configuration.
NoSec == [present |-> FALSE, name |-> NoName, calib |-> NoKey, log |-> NoFlags]

EmptyConf == [core |-> FALSE, lastlog |-> NoLog, timeout |-> NoTimeout,
              dev |-> [d \in DevIds |-> NoSec]]

\* str(self.end_log) is the string of a float: the strings of the times are
\* the numbers from StrBase on; float(...) reads the time back.
StrBase == 1000

Str(t) == StrBase + t

Float(s) == s - StrBase

\* int(timeout) of the string of a number of seconds
IntOf(s) == s - StrBase

\* timeout = 60  # Default timeout is set to 1 minute.
DefaultTimeout == 60

\* The seconds run() sleeps for once log_data has returned: the key 'timeout'
\* of DataLogging in self.config, or the default.
Interval(cfg) == IF cfg.timeout # NoTimeout THEN IntOf(cfg.timeout) ELSE DefaultTimeout

\* self.config[id] = {} followed by the assignment of 'logical-name'
NewSection(name) == [present |-> TRUE, name |-> name, calib |-> NoKey, log |-> NoFlags]

\* A variant that recreates the section of a device on every cycle.
InConfigNever(cfg, d) == FALSE

\* `module_serial in self.config`, `address in self.config`
InConfig(cfg, d) == cfg.dev[d].present

\* A variant that sets the flag whether or not the section holds it.
SetAlways(sec, f) == [sec EXCEPT !.log[f] = "true"]

\* A variant that leaves a missing flag absent (explicit opt-in).
SetOptIn(sec, f) == sec

\* if 'log-'+function not in self.config[id]:
\*     self.config[id]['log-'+function] = 'true'
SetDefault(sec, f) == IF sec.log[f] = NoKey THEN [sec EXCEPT !.log[f] = "true"] ELSE sec

\* A variant that takes every flag for 'true'.
IsEnabledAny(sec, f) == TRUE

\* self.config[id]['log-'+function] == 'true'
IsEnabled(sec, f) == sec.log[f] = "true"

MergeSection(cs, fs) ==
    IF ~fs.present THEN cs
    ELSE IF ~cs.present THEN fs
    ELSE [present |-> TRUE,
          name  |-> IF fs.name # NoName THEN fs.name ELSE cs.name,
          calib |-> IF fs.calib # NoKey THEN fs.calib ELSE cs.calib,
          log   |-> [f \in AllFuncs |->
                        IF fs.log[f] # NoKey THEN fs.log[f] ELSE cs.log[f]]]

\* ConfigParser.read(file) on a parser that already holds c: the sections and
\* keys of the file are added to, or replace, those held; nothing is removed.
ConfigRead(c, f) ==
    [core    |-> c.core \/ f.core,
     lastlog |-> IF f.lastlog # NoLog THEN f.lastlog ELSE c.lastlog,
     timeout |-> IF f.timeout # NoTimeout THEN f.timeout ELSE c.timeout,
     dev     |-> [d \in DevIds |-> MergeSection(c.dev[d], f.dev[d])]]

\* open(configfile, 'w'): the file is truncated.
Truncated == EmptyConf

\* The configuration files the program can be started on.
InitFiles ==
    { [core |-> TRUE, lastlog |-> NoLog, timeout |-> NoTimeout,
       dev |-> [d \in DevIds |-> NoSec]],
      [core |-> TRUE, lastlog |-> Str(1), timeout |-> Str(30),
       dev |-> [d \in DevIds |->
                  IF d = 1
                  THEN [present |-> TRUE, name |-> 201, calib |-> "ok",
                        log |-> [NoFlags EXCEPT !["temperature"] = "true",
                                                !["humidity"] = "false",
                                                !["moisture"] = "true",
                                                !["light"] = "false"]]
                  ELSE IF d = 2
                  THEN [present |-> TRUE, name |-> 202, calib |-> "bad", log |-> NoFlags]
                  ELSE NoSec]] }

Min(S) == CHOOSE x \in S : \A y \in S : x <= y

VARIABLES
    family,          \* "yocto" or "chirp": the devicetype argument of main
    pc,              \* where the logger thread is
    now,             \* time.time()
    file,            \* the content of the configuration file
    config,          \* self.config
    config_changed,  \* self.config_changed
    stop,            \* the attribute 'stop' of the logger object
    start_log,       \* self.start_log
    end_log,         \* self.end_log
    todo,            \* the connected devices the iteration has not passed
    datapoints,      \* ChirpLogger.log_data's local list
    \* ---- history of the current cycle
    aborted,         \* the iteration over the devices raised
    cause,           \* what raised: "enum" the enumeration of the devices,
                     \* "handler" the except clause of log_yocto
    sent,            \* the records passed to write_points
    sinkCalls,       \* the calls of write_points
    sinkFailed,      \* a call of write_points raised
    lastOk,          \* the device handled last, its metrics that were read,
                     \* whether its section was created, whether its
                     \* identity and all its functions were read
    sinkLogged,      \* logger.error was called with the error of the sink
    writes,          \* the writes of the configuration file
    newFound,        \* a device or metric without configuration was found
    \* ---- history of the process
    stopCalled,      \* stop() was called after start() and the loop has not
                     \* been at its top since
    lostEnd,         \* the latest window end of records the sink refused
    \* ---- history of the file
    fileAtSave,      \* the file before the save under way (else the file)
    cfgAtSave,       \* the configuration the save under way is writing
    removed,         \* the device whose section an operator removed (0: none)
    timeout,         \* the seconds of the time.sleep under way (else 0)
    loadedTimeout,   \* the key 'timeout' of the file when the cycle read it
    opEdit           \* the edit an operator made to a key of the file

vars == <<family, pc, now, file, config, config_changed, stop, start_log,
          end_log, todo, datapoints, aborted, cause, sent, sinkCalls, sinkFailed,
          lastOk, sinkLogged, writes, newFound, stopCalled,
          lostEnd, fileAtSave, cfgAtSave, removed, timeout, loadedTimeout, opEdit>>

cycleHist == <<aborted, cause, sent, sinkCalls, sinkFailed, lastOk, sinkLogged,
               writes, newFound>>

NoEdit == [kind |-> "none", dev |-> 0]

NoDevice == [dev |-> 0, ok |-> {}, created |-> FALSE, full |-> FALSE]

Init ==
    /\ family \in {"yocto", "chirp"}
    /\ pc = "idle"
    /\ now = 1
    /\ file \in InitFiles
    /\ config = EmptyConf
    /\ config_changed = FALSE
    /\ stop = "method"
    /\ start_log = 0
    /\ end_log = 0
    /\ todo = {}
    /\ datapoints = <<>>
    /\ aborted = FALSE
    /\ cause = "none"
    /\ sent = {}
    /\ sinkCalls = 0
    /\ sinkFailed = FALSE
    /\ lastOk = NoDevice
    /\ sinkLogged = FALSE
    /\ writes = 0
    /\ newFound = FALSE
    /\ stopCalled = FALSE
    /\ lostEnd = 0
    /\ fileAtSave = file
    /\ cfgAtSave = file
    /\ removed = 0
    /\ timeout = 0
    /\ loadedTimeout = NoTimeout
    /\ opEdit = NoEdit

\* ------------------------------------------------------------ YoctoLogger
\* What the environment does while one module is handled:
\*   enumok     modules() yields the module and get_productName() returns
\*   failAt     0: get_serialNumber/get_logicalName raises in log_yocto;
\*              k: get_functions raises when asked for the k-th function;
\*              above the number of functions: neither raises
\*   bad        the functions whose get_data raises
\*   sinkok     write_points returns
\*   handlerok  get_logicalName() returns in log_yocto's except clause
YoctoBehaviours(d) ==
    LET n == Len(YoctoFunctions(d))
        fs == {YoctoFunctions(d)[i] : i \in 1..n} \ {"dataLogger"}
    IN  { b \in [enumok : BOOLEAN, failAt : 0..(n + 1), bad : SUBSET fs,
                 sinkok : BOOLEAN, handlerok : BOOLEAN] :
            /\ ~b.enumok => (b.failAt = n + 1 /\ b.bad = {} /\ b.sinkok /\ b.handlerok)
            /\ (b.failAt <= n) => (b.bad = {} /\ b.sinkok)
            /\ (b.failAt > n /\ b.sinkok) => b.handlerok }

\* yoctodevices.get_data: the measures the module recorded for the function
\* between from_time and to_time, as one record per window; none when the
\* window is empty.
get_data(d, f, from, to) ==
    IF from < to
    THEN {[dev |-> d, name |-> ModuleName(d), fn |-> f, from |-> from, to |-> to]}
    ELSE {}

\* The loop over get_functions(module) of log_yocto, from the i-th function.
\* acc: [sec, dps, ok, new, raised]
RECURSIVE YoctoLoop(_, _, _, _, _, _)
YoctoLoop(d, i, b, from, to, acc) ==
    IF i > Len(YoctoFunctions(d)) THEN acc
    ELSE IF b.failAt = i THEN [acc EXCEPT !.raised = TRUE]
    ELSE
      LET f == YoctoFunctions(d)[i] IN
      IF f = "dataLogger" THEN YoctoLoop(d, i + 1, b, from, to, acc)
      ELSE
        LET absent == acc.sec.log[f] = NoKey
            sec1 == SetDefault(acc.sec, f)
            a1 == [acc EXCEPT !.sec = sec1, !.new = acc.new \/ absent]
        IN  IF IsEnabled(sec1, f)
            THEN IF f \in b.bad
                 THEN YoctoLoop(d, i + 1, b, from, to, a1)
                 ELSE YoctoLoop(d, i + 1, b, from, to,
                        [a1 EXCEPT !.dps = a1.dps \cup get_data(d, f, from, to),
                                   !.ok = IF get_data(d, f, from, to) # {}
                                          THEN a1.ok \cup {f} ELSE a1.ok])
            ELSE YoctoLoop(d, i + 1, b, from, to, a1)

\* YoctoLogger.log_yocto(module) under behaviour b.  Result:
\*   config, changed  self.config and self.config_changed afterwards
\*   dps              the datapoints passed to write_points ({}: no call)
\*   ok               the functions whose data was read
\*   new              a section or a flag was added
\*   sinkerr          write_points raised
\*   sinklogged       the except clause logged the error of write_points
\*   caught           the except clause was entered
\*   raised           the except clause itself raised
log_yocto(d, b, cfg, changed, from, to) ==
    IF b.failAt = 0
    THEN [config |-> cfg, changed |-> changed, dps |-> {}, ok |-> {}, new |-> FALSE,
          sinkerr |-> FALSE, sinklogged |-> FALSE, caught |-> TRUE,
          raised |-> ~b.handlerok]
    ELSE
      LET known == InConfig(cfg, d)
          sec0 == IF known THEN cfg.dev[d] ELSE NewSection(ModuleName(d))
          r == YoctoLoop(d, 1, b, from, to,
                 [sec |-> sec0, dps |-> {}, ok |-> {}, new |-> ~known,
                  raised |-> FALSE])
          written == ~r.raised /\ r.dps # {}
          sinkerr == written /\ ~b.sinkok
          caught == r.raised \/ sinkerr
      IN  [config |-> [cfg EXCEPT !.dev[d] = r.sec],
           changed |-> changed \/ ~known,
           dps |-> IF written THEN r.dps ELSE {},
           ok |-> r.ok,
           new |-> r.new,
           sinkerr |-> sinkerr,
           sinklogged |-> sinkerr /\ b.handlerok,
           caught |-> caught,
           raised |-> caught /\ ~b.handlerok]

\* A variant of log_yocto that calls write_points for every module.
WriteCallsAlways(n, dps) == n + 1

\* The calls of write_points after log_yocto has passed dps, n calls having
\* been made before: `if len(datapoints) != 0: write_points(datapoints)`.
WriteCalls(n, dps) == IF dps # {} THEN n + 1 ELSE n

\* A variant in which the except clause of log_data passes the records
\* collected so far to write_points.
AbortSentFlush(dps, snt) == snt \cup {dps[i] : i \in 1..Len(dps)}

\* The records passed to write_points once the iteration has raised, given
\* the datapoints collected and the records passed before: the except clause
\* of log_data only logs.
AbortSent(dps, snt) == snt

\* The except and finally clauses of log_data: the error is logged and
\* save_config is called; the devices not yet passed stay in todo.
AbortCycle ==
    /\ aborted' = TRUE
    /\ cause' = "enum"
    /\ sent' = AbortSent(datapoints, sent)
    /\ pc' = "save"

\* One iteration of `for module in yoctodevices.modules()` in
\* YoctoLogger.log_data, for the next connected module.
YoctoStep ==
    /\ pc = "iter" /\ family = "yocto" /\ todo # {}
    /\ LET d == Min(todo) IN
       \E b \in YoctoBehaviours(d) :
         IF ~b.enumok
         THEN /\ AbortCycle
              /\ UNCHANGED <<config, config_changed, todo, sinkCalls, sinkFailed,
                             lastOk, sinkLogged, newFound, lostEnd>>
         ELSE IF IsRelay(d)
         THEN /\ todo' = todo \ {d}
              /\ lastOk' = [NoDevice EXCEPT !.dev = d]
              /\ UNCHANGED <<pc, config, config_changed, aborted, cause, sent, sinkCalls,
                             sinkFailed, sinkLogged, newFound, lostEnd>>
         ELSE
           LET r == log_yocto(d, b, config, config_changed, start_log, end_log) IN
           /\ config' = r.config
           /\ config_changed' = r.changed
           /\ sinkCalls' = WriteCalls(sinkCalls, r.dps)
           /\ sinkFailed' = (sinkFailed \/ r.sinkerr)
           /\ lostEnd' = IF r.sinkerr /\ end_log > lostEnd THEN end_log ELSE lostEnd
           /\ sinkLogged' = (sinkLogged \/ r.sinklogged)
           /\ lastOk' = [dev |-> d, ok |-> IF r.caught THEN {} ELSE r.ok,
                          created |-> r.config.dev[d].present /\ ~config.dev[d].present,
                          full |-> b.failAt > Len(YoctoFunctions(d))]
           /\ newFound' = (newFound \/ r.new)
           /\ IF r.raised
              THEN /\ aborted' = TRUE
                   /\ cause' = "handler"
                   /\ sent' = AbortSent(datapoints, sent \cup r.dps)
                   /\ pc' = "save"
                   /\ todo' = todo
              ELSE /\ sent' = sent \cup r.dps
                   /\ todo' = todo \ {d}
                   /\ UNCHANGED <<pc, aborted, cause>>
    /\ UNCHANGED <<family, now, file, stop, start_log, end_log, datapoints, writes,
                   stopCalled, fileAtSave, cfgAtSave>>
    /\ UNCHANGED removed
    /\ UNCHANGED <<timeout, loadedTimeout, opEdit>>

\* The end of the try block of YoctoLogger.log_data, then finally.
YoctoFinish ==
    /\ pc = "iter" /\ family = "yocto" /\ todo = {}
    /\ config' = [config EXCEPT !.lastlog = Str(end_log)]
    /\ config_changed' = TRUE
    /\ pc' = "save"
    /\ UNCHANGED <<family, now, file, stop, start_log, end_log, todo, datapoints,
                   cycleHist, stopCalled, lostEnd, fileAtSave, cfgAtSave>>
    /\ UNCHANGED removed
    /\ UNCHANGED <<timeout, loadedTimeout, opEdit>>

\* ------------------------------------------------------------ ChirpLogger
\* What the environment does while one probe is handled:
\*   construct  Chirp(address=...) returns
\*   fail       the sensor whose read raises inside chirp.trigger(), or "none"
ChirpBehaviours ==
    { b \in [construct : BOOLEAN, fail : {"none", "temperature", "moisture", "light"}] :
        ~b.construct => b.fail = "none" }

\* chirpdevices.chirps, for one address: min_moist and max_moist are read
\* from the section of the address; int() raises on a value that is no number.
ChirpCalibRaises(cfg, d) == cfg.dev[d].present /\ cfg.dev[d].calib = "bad"

ChirpCalibrated(cfg, d) == cfg.dev[d].present /\ cfg.dev[d].calib = "ok"

\* chirpdevices.get_functions: the (name, value) pairs the generator yields.
\* "light" matches no branch that assigns (the last one tests func_value), so
\* it is yielded with the value left by the previous iteration.
get_functions(d, calibrated) ==
    <<  <<"temperature", Reported(d, "temperature")>>,
        <<"moisture", Reported(d, "moisture")>>,
        <<"light", Reported(d, "moisture")>> >>
    \o (IF calibrated
        THEN << <<"moisture-percent", Reported(d, "moisture-percent")>> >>
        ELSE << >>)

\* The loop over get_functions(chirp) of log_chirp, from the i-th pair.
\* acc: [sec, fields, changed]
RECURSIVE ChirpLoop(_, _, _)
ChirpLoop(fv, i, acc) ==
    IF i > Len(fv) THEN acc
    ELSE
      LET f == fv[i][1]
          absent == acc.sec.log[f] = NoKey
          sec1 == SetDefault(acc.sec, f)
          a1 == [acc EXCEPT !.sec = sec1, !.changed = acc.changed \/ absent]
      IN  IF IsEnabled(sec1, f)
          THEN ChirpLoop(fv, i + 1, [a1 EXCEPT !.fields = a1.fields \cup {fv[i]}])
          ELSE ChirpLoop(fv, i + 1, a1)

\* ChirpLogger.log_chirp(chirp, datapoints) under behaviour b at time t.
\* Result:
\*   config, changed  self.config and self.config_changed afterwards
\*   dps              datapoints afterwards
\*   new              a section or a flag was added
\*   clean            no call raised
log_chirp(d, calibrated, b, cfg, changed, dps, t) ==
    LET known == InConfig(cfg, d)
        sec0 == IF known THEN cfg.dev[d] ELSE NewSection(Serial(d))
    IN
    IF known /\ sec0.name = NoName
    THEN \* self.config[address]['logical-name'] raises KeyError
         [config |-> cfg, changed |-> changed, dps |-> dps, new |-> FALSE,
          clean |-> FALSE]
    ELSE
      LET rec0 == [dev |-> d, name |-> sec0.name, time |-> t, fields |-> {}]
          cfg0 == [cfg EXCEPT !.dev[d] = sec0]
      IN  IF b.fail # "none"
          THEN \* trigger() raises before the generator yields anything
               [config |-> cfg0, changed |-> changed \/ ~known,
                dps |-> Append(dps, rec0), new |-> ~known, clean |-> FALSE]
          ELSE
            LET r == ChirpLoop(get_functions(d, calibrated), 1,
                       [sec |-> sec0, fields |-> {}, changed |-> changed \/ ~known])
            IN  [config |-> [cfg EXCEPT !.dev[d] = r.sec],
                 changed |-> r.changed,
                 dps |-> Append(dps, [rec0 EXCEPT !.fields = r.fields]),
                 new |-> r.sec # cfg.dev[d],
                 clean |-> TRUE]

\* The metrics of probe d that are enabled in cfg (a flag that is absent is
\* set to 'true' when the metric is first seen).
ChirpEnabled(cfg, d, calibrated) ==
    LET fv == get_functions(d, calibrated) IN
    { fv[i][1] : i \in { j \in 1..Len(fv) :
                           ~cfg.dev[d].present \/ cfg.dev[d].log[fv[j][1]] \in {NoKey, "true"} } }

\* One iteration of `for chirp in chirpdevices.chirps(self.config)` in
\* ChirpLogger.log_data, for the next address that answered.
ChirpStep ==
    /\ pc = "iter" /\ family = "chirp" /\ todo # {}
    /\ LET d == Min(todo) IN
       \E b \in ChirpBehaviours :
         IF ChirpCalibRaises(config, d) \/ ~b.construct
         THEN /\ AbortCycle
              /\ UNCHANGED <<config, config_changed, todo, datapoints, lastOk,
                             newFound>>
         ELSE
           LET cal == ChirpCalibrated(config, d)
               r == log_chirp(d, cal, b, config, config_changed, datapoints, now)
               known == config.dev[d].present /\ config.dev[d].name # NoName
               sensors == ChirpEnabled(config, d, FALSE)
           IN
           /\ config' = r.config
           /\ config_changed' = r.changed
           /\ datapoints' = r.dps
           /\ newFound' = (newFound \/ r.new)
           /\ lastOk' = [dev |-> d,
                          ok |-> IF r.clean THEN ChirpEnabled(config, d, cal)
                                 ELSE IF b.fail # "none" /\ (known \/ ~config.dev[d].present)
                                 THEN sensors \ {b.fail}
                                 ELSE {},
                          created |-> r.config.dev[d].present /\ ~config.dev[d].present,
                          full |-> r.clean]
           /\ todo' = todo \ {d}
           /\ UNCHANGED <<pc, aborted, cause, sent>>
    /\ UNCHANGED <<family, now, file, stop, start_log, end_log, sinkCalls,
                   sinkFailed, sinkLogged, writes, stopCalled, lostEnd, fileAtSave,
                   cfgAtSave>>
    /\ UNCHANGED removed
    /\ UNCHANGED <<timeout, loadedTimeout, opEdit>>

\* self.client.write_points(datapoints) at the end of the try block of
\* ChirpLogger.log_data, then finally.
ChirpFinish ==
    /\ pc = "iter" /\ family = "chirp" /\ todo = {}
    /\ \E sinkok \in BOOLEAN :
         /\ sent' = {datapoints[i] : i \in 1..Len(datapoints)}
         /\ sinkCalls' = sinkCalls + 1
         /\ sinkFailed' = ~sinkok
         /\ sinkLogged' = ~sinkok
         /\ lostEnd' = IF ~sinkok /\ datapoints # <<>> THEN now ELSE lostEnd
    /\ pc' = "save"
    /\ UNCHANGED <<family, now, file, config, config_changed, stop, start_log, end_log,
                   todo, datapoints, aborted, cause, lastOk, writes, newFound,
                   stopCalled, fileAtSave, cfgAtSave>>
    /\ UNCHANGED removed
    /\ UNCHANGED <<timeout, loadedTimeout, opEdit>>

\* ------------------------------------------------------------- DataLogger
Running == pc \in {"top", "iter", "save", "saving", "sleep"}

\* The object of a process that has not called start(): no attribute hides
\* the method stop, the parser is empty.
FreshObject ==
    /\ config' = EmptyConf
    /\ config_changed' = FALSE
    /\ start_log' = 0
    /\ end_log' = 0
    /\ todo' = {}
    /\ datapoints' = <<>>

ResetCycleHist ==
    /\ sent' = {}
    /\ sinkCalls' = 0
    /\ sinkFailed' = FALSE
    /\ lastOk' = NoDevice
    /\ sinkLogged' = FALSE
    /\ writes' = 0
    /\ newFound' = FALSE

\* main() on a new process: YoctoLogger.start / DataLogger.start.  start()
\* raises KeyError on a file without the sections DataLogging and DataServer,
\* and no thread is started.
Start ==
    /\ pc \in {"idle", "crashed", "exited"}
    /\ file.core
    /\ config' = ConfigRead(EmptyConf, file)
    /\ start_log' = IF family = "yocto" /\ file.lastlog # NoLog
                    THEN Float(file.lastlog) ELSE 0
    /\ end_log' = start_log'
    /\ config_changed' = FALSE
    /\ stop' = "False"
    /\ pc' = "top"
    /\ todo' = {}
    /\ datapoints' = <<>>
    /\ ResetCycleHist
    /\ aborted' = FALSE
    /\ cause' = "none"
    /\ stopCalled' = FALSE
    /\ lostEnd' = 0
    /\ UNCHANGED <<family, now, file, fileAtSave, cfgAtSave>>
    /\ UNCHANGED removed
    /\ timeout' = 0
    /\ loadedTimeout' = NoTimeout
    /\ UNCHANGED opEdit

\* logger.stop() called by another thread.  Before start() the name stop is
\* the method, which sets the attribute; start() assigns False to the
\* attribute stop, so afterwards logger.stop is that bool and the call
\* raises TypeError in the caller without changing anything.  As the call
\* then changes nothing in the logger, it is followed here when it comes
\* while the thread sleeps, before the loop is next at its top, where a
\* request to stop would be seen.
StopCall ==
    /\ IF stop = "method"
       THEN stop' = "True" /\ UNCHANGED stopCalled
       ELSE /\ pc = "top" /\ ~stopCalled
            /\ stopCalled' = TRUE
            /\ UNCHANGED stop
    /\ UNCHANGED <<family, pc, now, file, config, config_changed, start_log, end_log,
                   todo, datapoints, cycleHist, lostEnd, fileAtSave, cfgAtSave>>
    /\ UNCHANGED removed
    /\ UNCHANGED <<timeout, loadedTimeout, opEdit>>

\* A variant in which every window starts at the epoch.
NextWindowFromEpoch(end, t) == [start |-> 0, end |-> t]

\* The first two statements of YoctoLogger.log_data at time t: the window
\* starts where the last one ended.
NextWindow(end, t) == [start |-> end, end |-> t]

\* A variant of save_config without the guard on config_changed.
SaveAlways(changed) == TRUE

\* The guard of DataLogger.save_config: nothing is written unless the
\* configuration was changed.
SaveNeeded(changed) == changed

\* The test of `while not self.stop` in DataLogger.run and, when the loop
\* goes on, self.config.read(self.configfile) and the first statements of
\* log_data: the window moves (YoctoLogger) and the iteration over the
\* connected devices begins.
RunLoop ==
    /\ pc = "top"
    /\ IF stop # "False"
       THEN /\ pc' = "exited"
            /\ UNCHANGED <<config, start_log, end_log, todo, datapoints, cycleHist>>
       ELSE /\ pc' = "iter"
            /\ config' = ConfigRead(config, file)
            /\ start_log' = IF family = "yocto" THEN NextWindow(end_log, now).start
                                                 ELSE start_log
            /\ end_log' = IF family = "yocto" THEN NextWindow(end_log, now).end
                                               ELSE end_log
            /\ todo' \in SUBSET DevIds
            /\ datapoints' = <<>>
            /\ ResetCycleHist
            /\ aborted' = FALSE
            /\ cause' = "none"
    /\ stopCalled' = FALSE
    /\ UNCHANGED <<family, now, file, config_changed, stop,
                   lostEnd, fileAtSave, cfgAtSave>>
    /\ UNCHANGED removed
    /\ loadedTimeout' = IF stop # "False" THEN loadedTimeout ELSE file.timeout
    /\ UNCHANGED <<timeout, opEdit>>

\* An exception leaves run(): the thread ends and with it the process.
Crash ==
    /\ pc' = "crashed"
    /\ stop' = "method"
    /\ FreshObject

\* DataLogger.save_config up to open(self.configfile, 'w'), which truncates
\* the file or raises.  When nothing is to be saved, log_data returns and
\* run() looks up the timeout and calls time.sleep.
SaveConfig ==
    /\ pc = "save"
    /\ IF ~SaveNeeded(config_changed)
       THEN /\ pc' = "sleep"
            /\ UNCHANGED <<file, config, config_changed, stop, start_log, end_log,
                           todo, datapoints, writes, fileAtSave, cfgAtSave>>
       ELSE \E opened \in BOOLEAN :
              IF opened
              THEN /\ file' = Truncated
                   /\ fileAtSave' = file
                   /\ cfgAtSave' = config
                   /\ writes' = writes + 1
                   /\ pc' = "saving"
                   /\ UNCHANGED <<config, config_changed, stop, start_log, end_log,
                                  todo, datapoints>>
              ELSE /\ Crash
                   /\ UNCHANGED <<file, writes, fileAtSave, cfgAtSave>>
    /\ UNCHANGED <<family, now, aborted, cause, sent, sinkCalls, sinkFailed, lastOk,
                   sinkLogged, newFound, stopCalled, lostEnd>>
    /\ UNCHANGED removed
    /\ timeout' = IF ~SaveNeeded(config_changed) THEN Interval(config) ELSE timeout
    /\ UNCHANGED <<loadedTimeout, opEdit>>

\* self.config.write(configfile), the end of the with block and the reset of
\* config_changed; the write raises when the disk refuses it.  Then log_data
\* returns and run() looks up the timeout and calls time.sleep.
SaveWrite ==
    /\ pc = "saving"
    /\ \E written \in BOOLEAN :
         IF written
         THEN /\ file' = config
              /\ fileAtSave' = config
              /\ config_changed' = FALSE
              /\ pc' = "sleep"
              /\ timeout' = Interval(config)
              /\ UNCHANGED <<config, stop, start_log, end_log, todo, datapoints,
                             cfgAtSave>>
         ELSE /\ Crash
              /\ UNCHANGED <<file, fileAtSave, cfgAtSave, timeout>>
    /\ UNCHANGED <<family, now, cycleHist, stopCalled, lostEnd>>
    /\ UNCHANGED removed
    /\ UNCHANGED <<loadedTimeout, opEdit>>

\* File f after an operator has deleted the section of device d from it.
RemoveSection(f, d) == [f EXCEPT !.dev[d] = NoSec]

\* File f after an operator has set the key 'timeout' of DataLogging to v, or
\* deleted it (v = NoTimeout).
SetTimeout(f, v) == [f EXCEPT !.timeout = v]

\* File f after an operator has set the flag log-temperature of device d to
\* 'false'.
DisableTemperature(f, d) == [f EXCEPT !.dev[d].log["temperature"] = "false"]

\* The operator has not edited the file yet: one edit is followed.
Unedited == removed = 0 /\ opEdit = NoEdit

\* The end of an iteration of run(): the timeout is looked up in DataLogging
\* and time.sleep returns when the clock has advanced.  The locals of the
\* cycle are gone; aborted stays until the next cycle begins.  While the
\* thread sleeps an operator may edit the file (run() reads it again "in case
\* modifications were made since the last iteration"): the section of one
\* device is removed, or the key 'timeout' is removed or set to 5 seconds.
Sleep ==
    /\ pc = "sleep"
    /\ now < MaxTime
    /\ now' = now + 1
    /\ pc' = "top"
    /\ todo' = {}
    /\ datapoints' = <<>>
    /\ ResetCycleHist
    /\ \/ UNCHANGED <<file, removed, opEdit, fileAtSave, cfgAtSave>>
       \/ /\ Unedited
          /\ \E d \in DevIds :
               /\ file.dev[d].present
               /\ file' = RemoveSection(file, d)
               /\ removed' = d
          /\ fileAtSave' = file'
          /\ cfgAtSave' = file'
          /\ UNCHANGED opEdit
       \/ /\ Unedited
          /\ \E v \in {NoTimeout, Str(5)} :
               /\ file.timeout # v
               /\ file' = SetTimeout(file, v)
               /\ opEdit' = [kind |-> IF v = NoTimeout THEN "notimeout" ELSE "timeout",
                             dev |-> 0]
          /\ fileAtSave' = file'
          /\ cfgAtSave' = file'
          /\ UNCHANGED removed
    /\ timeout' = 0
    /\ UNCHANGED <<family, config, config_changed, stop, start_log, end_log,
                   aborted, cause, stopCalled, lostEnd, loadedTimeout>>

\* An operator writes the configuration file while a cycle is under way,
\* after the cycle has read the file and before save_config: the flag
\* log-temperature of a device is set to 'false', or the key 'timeout' is set
\* to 5 seconds.
OperatorWrite ==
    /\ pc = "save"
    /\ Unedited
    /\ \/ \E d \in DevIds :
            /\ file.dev[d].present
            /\ file.dev[d].log["temperature"] = "true"
            /\ file' = DisableTemperature(file, d)
            /\ opEdit' = [kind |-> "flag", dev |-> d]
       \/ /\ file.timeout # Str(5)
          /\ file' = SetTimeout(file, Str(5))
          /\ opEdit' = [kind |-> "timeout", dev |-> 0]
    /\ fileAtSave' = file'
    /\ cfgAtSave' = file'
    /\ UNCHANGED <<family, pc, now, config, config_changed, stop, start_log, end_log,
                   todo, datapoints, cycleHist, stopCalled, lostEnd, removed, timeout,
                   loadedTimeout>>

\* The process is interrupted (a signal, a power cut) wherever it is.
Kill ==
    /\ Running
    /\ pc' = "idle"
    /\ stop' = "method"
    /\ FreshObject
    /\ ResetCycleHist
    /\ aborted' = FALSE
    /\ cause' = "none"
    /\ stopCalled' = FALSE
    /\ lostEnd' = 0
    /\ UNCHANGED <<family, now, file, fileAtSave, cfgAtSave>>
    /\ UNCHANGED removed
    /\ timeout' = 0
    /\ loadedTimeout' = NoTimeout
    /\ UNCHANGED opEdit

Next ==
    \/ Start
    \/ StopCall
    \/ RunLoop
    \/ YoctoStep
    \/ YoctoFinish
    \/ ChirpStep
    \/ ChirpFinish
    \/ SaveConfig
    \/ SaveWrite
    \/ Sleep
    \/ Kill
    \/ OperatorWrite

Spec == Init /\ [][Next]_vars

\* ------------------------------------------------------------------ views
\* The enumeration of the devices raised in this cycle.
DiscoveryFailed == aborted /\ cause = "enum"

CycleOver == pc \in {"save", "saving", "sleep"}

\* The connected devices, with sensors, that the aborted iteration never
\* reached: those after the device at which it raised.
Unvisited ==
    IF aborted /\ todo # {}
    THEN {d \in todo \ {Min(todo)} : family = "chirp" \/ ~IsRelay(d)}
    ELSE {}

\* The metrics of device d found in the records built for it in this cycle.
Recorded(d) ==
    IF family = "yocto"
    THEN {r.fn : r \in {x \in sent : x.dev = d}}
    ELSE UNION { {fv[1] : fv \in datapoints[i].fields} :
                   i \in {j \in 1..Len(datapoints) : datapoints[j].dev = d} }

\* A record passed to write_points in a cycle after the one in which the sink
\* refused records covers the time of the refused records.
Resubmitted ==
    /\ lostEnd > 0
    /\ now > lostEnd
    /\ \E r \in sent : IF family = "yocto" THEN r.from < lostEnd ELSE r.time <= lostEnd

\* ----------------------------------------------------------------- claims

\* C1: window monotonicity of the Yocto logger.  When a cycle begins, its
\* window start is the window end of the cycle before, except that after a
\* cycle that aborted at discovery the window is unchanged: the new cycle
\* starts where the aborted one started.  (Fails: the window always moves.)
C1_WindowRetriedAfterAbort ==
    [][(family = "yocto" /\ pc = "top" /\ pc' = "iter")
         => start_log' = IF aborted THEN start_log ELSE end_log]_vars

\* C2: failure isolation between devices.  When a cycle is over, an error
\* raised while one device was handled has kept no other connected device
\* from being handled, and, unless the sink refused them, the records built
\* for the other devices have been passed to the sink.
C2_DeviceIsolation ==
    CycleOver =>
       /\ Unvisited = {}
       /\ ~sinkFailed =>
            \A i \in 1..Len(datapoints) :
               datapoints[i].fields # {} => datapoints[i] \in sent

C4_StopEndsLoop ==
    [][(stopCalled /\ pc = "top") => pc' # "iter"]_vars

\* C5: scheduler resilience.  No error of a cycle leaves the run loop: the
\* thread never ends with an exception.
C5_NoCrash ==
    pc # "crashed"

\* C6: atomic save.  The configuration file always holds the complete
\* configuration from before the save under way or the complete new one.
C6_AtomicSave ==
    file \in {fileAtSave, cfgAtSave}

C8_SinkFailure ==
    /\ (pc = "sleep" /\ sinkFailed /\ cause # "handler") =>
          /\ sinkLogged
          /\ ~config_changed
          /\ family = "yocto" => file.lastlog = Str(end_log)
    /\ ~Resubmitted

\* C8 as amended: after a cycle in which the sink refused records, the
\* configuration has been saved if it was changed and no later cycle of the
\* same process passes the refused records again; when the cycle's iteration
\* over the devices completed, the error has been logged and the persisted
\* last-log of the Yocto logger is the window end of the cycle.
C8_SinkFailureCompleted ==
    /\ (pc = "sleep" /\ sinkFailed) =>
          /\ ~config_changed
          /\ ~aborted =>
                /\ sinkLogged
                /\ family = "yocto" => file.lastlog = Str(end_log)
    /\ ~Resubmitted

\* C8 witness: a Yocto cycle in which the sink refused records has completed
\* its iteration, logged the error and saved its window end.
C8_Witness ==
    /\ family = "yocto" /\ pc = "sleep" /\ sinkFailed /\ ~aborted
    /\ sinkLogged /\ file.lastlog = Str(end_log)

\* C9 as stated: a cycle whose discovery failed has passed no record to the
\* sink.
C9_NothingSubmitted ==
    DiscoveryFailed => sent = {}

\* C9 as amended: a cycle whose discovery failed passes no record to the sink
\* after the failure: the Chirp logger has passed none at all, the Yocto
\* logger only the records of the modules enumerated before the failure.
C9_NothingSubmittedAfterFailure ==
    DiscoveryFailed =>
       /\ family = "chirp" => (sent = {} /\ sinkCalls = 0)
       /\ \A r \in sent : r.dev \notin todo

\* C9 witness: a Chirp cycle that had built a record when discovery failed.
C9_Witness ==
    DiscoveryFailed /\ family = "chirp" /\ datapoints # <<>>

\* C10: the persisted last-log changes only in the save of a Yocto cycle
\* whose discovery completed, to the window end of that cycle; and a logger
\* that is started takes the persisted last-log (0 without one) as the end of
\* its window, where its first cycle starts.
C10_LastLogPersisted ==
    [][/\ file'.lastlog # file.lastlog
          => (family = "yocto" /\ ~aborted /\ file'.lastlog = Str(end_log))
       /\ (pc # "top" /\ pc' = "top" /\ pc # "sleep" /\ family = "yocto")
          => end_log' = IF file.lastlog = NoLog THEN 0 ELSE Float(file.lastlog)]_vars

\* C11: record content of a probe.  Every field of a record of the Chirp
\* logger passed to the sink holds the value the probe reported for the
\* metric the field is named after.  (Fails: 'light' holds the moisture.)
C11_RecordContent ==
    family = "chirp" =>
       \A r \in sent : \A fv \in r.fields : fv[2] = Reported(r.dev, fv[1])

\* The metrics a record passed to the sink holds a value for.
FieldsOf(r) == IF family = "yocto" THEN {r.fn} ELSE {fv[1] : fv \in r.fields}

\* C12: disabled metrics are never logged.  While a cycle runs, every metric
\* a record passed to the sink holds a value for has the flag 'true' in the
\* section of its device in the in-memory configuration.
C12_DisabledNeverLogged ==
    pc \in {"iter", "save", "saving", "sleep"} =>
       \A r \in sent : \A f \in FieldsOf(r) : config.dev[r.dev].log[f] = "true"

\* C12 witness: the Chirp logger has passed a record of a probe whose flag
\* log-light is 'false'; the record holds the temperature and no light.
C12_Witness ==
    /\ family = "chirp" /\ pc = "save"
    /\ \E r \in sent : /\ r.dev = 1
                       /\ config.dev[1].log["light"] = "false"
                       /\ "temperature" \in FieldsOf(r)
                       /\ "light" \notin FieldsOf(r)

\* Section t holds every key of section s that is a label or a flag, with the
\* value it has in s.
KeepsKeys(s, t) ==
    s.present =>
       /\ t.present
       /\ s.name # NoName => t.name = s.name
       /\ \A f \in AllFuncs : s.log[f] # NoKey => t.log[f] = s.log[f]

\* C13: user edits are sticky.  No step of a collection cycle changes the
\* value of a label or of a flag that the in-memory configuration holds; it
\* only adds sections and flags that were absent.
C13_UserEditsSticky ==
    [][(pc = "iter" /\ pc' \in {"iter", "save"})
         => \A d \in DevIds : KeepsKeys(config.dev[d], config'.dev[d])]_vars

\* C13 witness: the Yocto logger has handled, without error, a module whose
\* section holds a label given by a user and the flag log-humidity 'false';
\* both are as they were.
C13_Witness ==
    /\ family = "yocto" /\ pc = "save"
    /\ lastOk.dev = 1 /\ lastOk.full
    /\ config.dev[1].name = 201
    /\ config.dev[1].log["humidity"] = "false"

\* Reconciling device d twice under the same behaviour of the environment,
\* starting from configuration cfg: the second pass, entered with the dirty
\* flag cleared, leaves the device sections as the first pass left them and
\* does not set the dirty flag.
TwiceIsOnce(cfg, d) ==
    IF family = "yocto"
    THEN \A b \in YoctoBehaviours(d) :
           LET r1 == log_yocto(d, b, cfg, FALSE, start_log, end_log)
               r2 == log_yocto(d, b, r1.config, FALSE, start_log, end_log)
           IN  r2.config.dev = r1.config.dev /\ ~r2.changed
    ELSE \A b \in ChirpBehaviours :
           LET r1 == log_chirp(d, ChirpCalibrated(cfg, d), b, cfg, FALSE, <<>>, now)
               r2 == log_chirp(d, ChirpCalibrated(r1.config, d), b, r1.config, FALSE,
                               <<>>, now)
           IN  r2.config.dev = r1.config.dev /\ ~r2.changed

\* C14: idempotent reconciliation.  Whatever configuration a cycle has in
\* memory when it reaches a device, reconciling that device a second time
\* with the same discovery result changes no device section and does not set
\* the dirty flag.
C14_Idempotent ==
    (pc = "iter" /\ todo # {}) => TwiceIsOnce(config, Min(todo))

\* C14 witness: in a later cycle the Yocto logger has handled again, without
\* error, a module whose section it created in an earlier cycle, and found
\* nothing to add.
C14_Witness ==
    /\ family = "yocto" /\ pc = "save" /\ now > 1 /\ ~aborted
    /\ lastOk.dev = 2 /\ lastOk.full /\ ~lastOk.created /\ ~newFound
    /\ config.dev[2].name = ModuleName(2)

\* The functions of module d other than its data logger.
SensorFunctions(d) ==
    {YoctoFunctions(d)[i] : i \in 1..Len(YoctoFunctions(d))} \ {"dataLogger"}

\* C15: default enablement of the Yocto modules.  When a cycle has read the
\* identity and the functions of a module that had no section, the
\* configuration holds a section for it, labelled with the module's name, in
\* which every function but 'dataLogger' has the flag 'true' and 'dataLogger'
\* has no flag; a relay module has no section and no record.
C15_DefaultEnablement ==
    (family = "yocto" /\ pc \in {"iter", "save", "saving", "sleep"}) =>
       /\ (lastOk.created /\ lastOk.full) =>
             LET sec == config.dev[lastOk.dev] IN
             /\ sec.present
             /\ sec.name = ModuleName(lastOk.dev)
             /\ \A f \in SensorFunctions(lastOk.dev) : sec.log[f] = "true"
             /\ sec.log["dataLogger"] = NoKey
       /\ \A d \in DevIds : ProductName(d) = "Yocto-Relay" =>
             /\ ~config.dev[d].present
             /\ \A r \in sent : r.dev # d

\* C15 witness: a cycle has created the section of the module with a data
\* logger and two sensors, both flags are 'true', and the relay connected
\* with it is the only device left to pass.
C15_Witness ==
    /\ family = "yocto" /\ pc = "iter" /\ todo = {3}
    /\ lastOk.dev = 1 /\ lastOk.created /\ lastOk.full
    /\ config.dev[1].log["temperature"] = "true"
    /\ config.dev[1].log["humidity"] = "true"
    /\ config.dev[1].log["dataLogger"] = NoKey

\* Configuration t holds every device section and every flag that s holds.
HoldsEntries(s, t) ==
    \A d \in DevIds :
       s.dev[d].present =>
          /\ t.dev[d].present
          /\ \A f \in AllFuncs : s.dev[d].log[f] # NoKey => t.dev[d].log[f] # NoKey

\* C16: policy entries are never deleted automatically.  No step of a running
\* logger removes a section or a flag from the in-memory configuration, and
\* when a save has ended, by returning or by raising, the file holds every
\* section and flag it held before the save.  (Fails: a save that raises
\* after open() leaves the file empty.)
C16_EntriesKept ==
    [][/\ (Running /\ pc' \in {"top", "iter", "save", "saving", "sleep"})
             => HoldsEntries(config, config')
       /\ (pc = "saving" /\ pc' \in {"sleep", "crashed"})
             => HoldsEntries(fileAtSave, file')]_vars

\* C17: learned policy is persisted.  When save_config has returned at the
\* end of a cycle, aborted or not, the file holds every device section and
\* every flag of the in-memory configuration, those added in the cycle
\* included.  (Stated for files no operator removed a section from.  Fails:
\* log_yocto adds a flag to a known section without setting the dirty flag.)
C17_LearnedPersisted ==
    [][(pc \in {"save", "saving"} /\ pc' = "sleep" /\ removed = 0)
         => HoldsEntries(config, file')]_vars

\* C18 as stated: single batch per cycle.  In a cycle the sink's write is
\* called at most once, and only when all the devices have been handled.
C18_SingleBatch ==
    /\ sinkCalls <= 1
    /\ sinkCalls = 1 => (todo = {} /\ ~aborted)

\* C18 as amended: the Chirp logger calls the sink's write at most once in a
\* cycle, when all the probes have been handled and not at all when the
\* iteration raised; the Yocto logger calls it once for each module that
\* produced datapoints.
C18_BatchPerFamily ==
    /\ family = "chirp" => /\ sinkCalls <= 1
                           /\ sinkCalls = 1 => (todo = {} /\ ~aborted)
    /\ family = "yocto" => sinkCalls = Cardinality({r.dev : r \in sent})

\* C18 witness: a Yocto cycle over two modules has called the sink's write
\* twice, once with the records of each.
C18_Witness ==
    /\ family = "yocto" /\ pc = "save" /\ ~aborted
    /\ sinkCalls = 2
    /\ {r.dev : r \in sent} = {1, 2}

\* C19: no record for a device without enabled metrics.  Every record passed
\* to the sink holds a value for at least one metric.  (Fails: log_chirp
\* appends the record of a probe before it reads any of its metrics.)
C19_NoEmptyRecord ==
    \A r \in sent : FieldsOf(r) # {}

\* C20: fresh load every cycle.  When a cycle begins, after the reload, the
\* in-memory configuration equals the content of the configuration file; in
\* particular a section an operator removed from the file is absent from it.
\* (Fails: ConfigParser.read adds the file to what the parser holds.)
C20_FreshLoad ==
    [][(pc = "top" /\ pc' = "iter")
         => /\ config' = file
            /\ (removed # 0 /\ ~file.dev[removed].present)
                  => ~config'.dev[removed].present]_vars

\* ------------------------------------------------------------------- C21
\* C21: whenever the loop sleeps between two cycles, it waits the number of
\* seconds of the key 'timeout' that the configuration file held when the
\* cycle read it, and 60 seconds when the file held no such key.
C21_IntervalSelection ==
    pc = "sleep" =>
        timeout = IF loadedTimeout = NoTimeout THEN DefaultTimeout
                  ELSE IntOf(loadedTimeout)

\* ------------------------------------------------------------------- C22
\* The metrics get_functions yields for a probe without calibration.
ProbeMetrics == {"temperature", "moisture", "light"}

\* C22 as stated: a metric of a Chirp probe is governed by explicit opt-in.
\* When a Chirp cycle has passed its records to the sink and no operator has
\* touched the file, every metric a record holds a value for has the flag
\* 'true' in the section of its probe in the configuration file, which is
\* still the file the cycle read.
C22_OptIn ==
    (family = "chirp" /\ pc = "save" /\ Unedited) =>
       \A r \in sent : \A f \in FieldsOf(r) :
          file.dev[r.dev].present /\ file.dev[r.dev].log[f] = "true"

\* C22 amended: the probes are enabled by default too.  When a Chirp cycle
\* has created the section of a probe and read its metrics, the section
\* holds the flag 'true' for temperature, moisture and light, the record of
\* the probe holds a value for exactly these metrics, and it is among the
\* records passed to the sink when the cycle reaches write_points;
\* moisture-percent is in the record of a probe only when the section of the
\* probe holds its calibration.
C22_EnabledByDefault ==
    (family = "chirp" /\ pc \in {"iter", "save", "saving", "sleep"}) =>
       /\ (lastOk.created /\ lastOk.full) =>
             /\ datapoints # <<>>
             /\ LET rec == datapoints[Len(datapoints)] IN
                /\ rec.dev = lastOk.dev
                /\ {fv[1] : fv \in rec.fields} = ProbeMetrics
                /\ \A f \in ProbeMetrics : config.dev[lastOk.dev].log[f] = "true"
                /\ (pc # "iter" /\ ~aborted) => rec \in sent
       /\ \A r \in sent : "moisture-percent" \in FieldsOf(r) =>
             config.dev[r.dev].calib = "ok"

\* C22 witness: the first cycle that observes a probe has created its
\* section and has passed a record with its three metrics to the sink, while
\* the file holds no section for the probe.
C22_Witness ==
    /\ family = "chirp" /\ pc = "save" /\ ~aborted
    /\ lastOk.created /\ lastOk.full
    /\ ~file.dev[lastOk.dev].present
    /\ \E r \in sent : r.dev = lastOk.dev /\ FieldsOf(r) = ProbeMetrics

\* ------------------------------------------------------------------- C23
\* C23: no operator edit is lost.  Once an operator has set the flag
\* log-temperature of a device to 'false' or the key 'timeout' to 5 seconds,
\* between two cycles or while a cycle is under way, the configuration file
\* holds that value whenever it holds its fixed sections (no write of the
\* collector is under way or was cut short).
C23_EditKept ==
    file.core =>
       /\ opEdit.kind = "flag" =>
             /\ file.dev[opEdit.dev].present
             /\ file.dev[opEdit.dev].log["temperature"] = "false"
       /\ opEdit.kind = "timeout" => file.timeout = Str(5)

====
